---- MODULE Spec2Model ----
(***************************************************************************)
(* A model of packages/react/alert-dialog/src/AlertDialog.tsx: one         *)
(* AlertDialog instance (Root, Content, Title, Description, Cancel and the *)
(* AccessibilityDevWarnings sub-component) that is opened, re-rendered and *)
(* closed.  The dialog primitive, the event-handler composition, the ref   *)
(* composition and the id generator are collaborators whose source is not  *)
(* in AlertDialog.tsx; they are modelled from their documented contract.   *)
(***************************************************************************)
EXTENDS Naturals, Sequences, FiniteSets

VARIABLES
    NODE_ENV,        \* process.env.NODE_ENV of the build
    props,           \* the caller's props of AlertDialogContent
    titleChild,      \* the AlertDialogTitle child: present?, its id prop
    descChild,       \* the AlertDialogDescription child: present?, its id prop
    cancels,         \* number of AlertDialogCancel children of Content
    actionFirst,     \* an AlertDialogAction precedes the Cancel controls in document order
    pageIds,         \* ids of elements rendered elsewhere in the document
    open,            \* DialogPrimitive's open state (content is mounted iff open)
    opens,           \* number of open transitions so far
    rerenders,       \* number of prop changes of the mounted Content so far
    cancelRef,       \* cancelRef.current of AlertDialogContent
    activeElement,   \* document.activeElement
    content,         \* attributes of the rendered content element (NotRendered while closed)
    labelWarnings,   \* number of console.warn(LABEL_WARNING) calls so far
    descWarnings,    \* number of console.warn(DESC_WARNING) calls so far
    lastCheck,       \* what the last run of the AccessibilityDevWarnings effect emitted
    lastEvent        \* the pre-autofocus event of the last open transition, after dispatch

vars == <<NODE_ENV, props, titleChild, descChild, cancels, actionFirst, pageIds,
          open, opens, rerenders, cancelRef, activeElement, content,
          labelWarnings, descWarnings, lastCheck, lastEvent>>

config == <<NODE_ENV, titleChild, descChild, cancels, actionFirst, pageIds>>

(* ------------------------------ bounds -------------------------------- *)

MaxOpens == 2
MaxRerenders == 1
MaxCancel == 1

(* ------------------------- JavaScript values -------------------------- *)

\* `undefined`: a prop the caller did not pass, an attribute that is not set.
Absent == "<undefined>"

\* JavaScript truthiness of an optional string.
Truthy(v) == v # Absent /\ v # ""

\* a || b
Or(a, b) == IF Truthy(a) THEN a ELSE b

\* { ...base, ...over }: the keys `over` carries replace those of `base`.
Spread(base, over) ==
    [k \in (DOMAIN base) \cup (DOMAIN over) |->
        IF k \in DOMAIN over /\ (over[k] # Absent \/ k \notin DOMAIN base)
        THEN over[k] ELSE base[k]]

(* ------------------------------ handles ------------------------------- *)

Null == <<"null", 0, 0>>
Trigger == <<"trigger", 0, 0>>
CancelElement(i, gen) == <<"cancel", i, gen>>
ActionElement(gen) == <<"action", 1, gen>>
ContentElement(gen) == <<"content", 0, gen>>

(* ------------------------------ AlertDialog --------------------------- *)

\* useId(): two distinct, non-empty, per-instance identifiers.
descriptionId == "radix-id-1"
titleId == "radix-id-2"

(* --------------------------- AlertDialogContent ----------------------- *)

\* Variant: ariaDescribedBy ?? descriptionId (falls back only when absent).
EffectiveDescribedBy_Nullish(ariaDescribedBy, descId) ==
    IF ariaDescribedBy # Absent THEN ariaDescribedBy ELSE descId

\* aria-describedby={ariaDescribedBy || descriptionId}
EffectiveDescribedBy(ariaDescribedBy, descId) == Or(ariaDescribedBy, descId)

\* Variant: ariaLabelledBy || titleId, whatever aria-label is.
EffectiveLabelledBy_NoSuppress(ariaLabel, ariaLabelledBy, tId) ==
    Or(ariaLabelledBy, tId)

\* aria-labelledby={ariaLabel ? undefined : ariaLabelledBy || titleId}
EffectiveLabelledBy(ariaLabel, ariaLabelledBy, tId) ==
    IF Truthy(ariaLabel) THEN Absent ELSE Or(ariaLabelledBy, tId)

\* aria-label={ariaLabel || undefined}
EffectiveLabel(ariaLabel) == Or(ariaLabel, Absent)

\* const { 'aria-label', 'aria-labelledby', 'aria-describedby', children,
\*         ...dialogContentProps } = props
DialogContentProps(p) ==
    [k \in (DOMAIN p) \ {"ariaLabel", "ariaLabelledBy", "ariaDescribedBy"} |-> p[k]]

\* The attributes <DialogPrimitive.Content role=... aria-...=... {...dialogContentProps}>
\* hands to the content element (onOpenAutoFocus is a handler, not an attribute).
AlertDialogContentAttrs(p) ==
    LET own == [role |-> "alertdialog",
                ariaDescribedBy |-> EffectiveDescribedBy(p.ariaDescribedBy, descriptionId),
                ariaLabelledBy |->
                    EffectiveLabelledBy(p.ariaLabel, p.ariaLabelledBy, titleId),
                ariaLabel |-> EffectiveLabel(p.ariaLabel)]
        all == Spread(own, DialogContentProps(p))
    IN  [k \in (DOMAIN all) \ {"onOpenAutoFocus"} |-> all[k]]

NotRendered ==
    [role |-> Absent, ariaDescribedBy |-> Absent, ariaLabelledBy |-> Absent,
     ariaLabel |-> Absent]

(* ------------------ the pre-autofocus event and its handlers ---------- *)

\* The event as the primitive dispatches it: not default-prevented, no handler
\* called yet, no element focused by a handler.
NewEvent == [defaultPrevented |-> FALSE, calls |-> <<>>, focused |-> Null]

\* cancelRef.current?.focus({ preventScroll: true }): nothing happens, and
\* nothing is thrown, when the slot is empty.
FocusCancel(event, ref) ==
    IF ref = Null THEN event ELSE [event EXCEPT !.focused = ref]

\* Variant: prevent default only when there is a Cancel element to focus.
OpenAutoFocusHandler_OnlyWithTarget(event, ref) ==
    IF ref = Null
    THEN [event EXCEPT !.calls = Append(@, "default")]
    ELSE FocusCancel([event EXCEPT !.calls = Append(@, "default"),
                                   !.defaultPrevented = TRUE], ref)

\* Variant: focus Cancel without event.preventDefault().
OpenAutoFocusHandler_NoPrevent(event, ref) ==
    FocusCancel([event EXCEPT !.calls = Append(@, "default")], ref)

\* (event) => { event.preventDefault(); cancelRef.current?.focus(...) }
OpenAutoFocusHandler(event, ref) ==
    FocusCancel([event EXCEPT !.calls = Append(@, "default"),
                              !.defaultPrevented = TRUE], ref)

\* A caller-supplied onOpenAutoFocus handler: one that returns, or one that
\* calls event.preventDefault().
CallerHandler(kind, event) ==
    [event EXCEPT !.calls = Append(@, "user"),
                  !.defaultPrevented = (@ \/ kind = "prevent")]

\* composeEventHandlers(original, ours): original first, ours unless the
\* event is default-prevented by then.
ComposeEventHandlers(original, event, ref) ==
    LET e1 == IF original = Absent THEN event ELSE CallerHandler(original, event)
    IN  IF e1.defaultPrevented THEN e1 ELSE OpenAutoFocusHandler(e1, ref)

\* Variant: the component's handler replaces the caller's.
ContentOnOpenAutoFocus_Replace(p, event, ref) == OpenAutoFocusHandler(event, ref)

\* onOpenAutoFocus={composeEventHandlers(dialogContentProps.onOpenAutoFocus, ...)}
ContentOnOpenAutoFocus(p, event, ref) ==
    ComposeEventHandlers(DialogContentProps(p).onOpenAutoFocus, event, ref)

(* --------------------- AlertDialogTitle / Description ------------------ *)

\* <Primitive id={titleId} {...titleProps} />
AlertDialogTitleAttrs(titleProps) == Spread([id |-> titleId], titleProps)

\* <Primitive id={descriptionId} {...descriptionProps} />
AlertDialogDescriptionAttrs(descriptionProps) ==
    Spread([id |-> descriptionId], descriptionProps)

ChildProps(child) == [id |-> child.id]

(* ----------------------------- AlertDialogCancel ----------------------- *)

\* useComposedRefs(forwardedRef, cancelRef): every Cancel that mounts writes its
\* element into the slot, in document order; the last of the n writes stays.
CancelRefAfterMount(ref, n, gen) ==
    IF n = 0 THEN ref ELSE CancelElement(n, gen)

\* React detaches a ref when its element unmounts: the composed ref receives null.
CancelRefAfterUnmount(ref) == Null

(* ------------------------------ the document -------------------------- *)

\* The ids carried by rendered elements: those of the page, and, while the
\* content is mounted, those of the Title and Description elements.
DocumentIds(isOpen, tChild, dChild, page) ==
    page
    \cup (IF isOpen /\ tChild.present
          THEN {AlertDialogTitleAttrs(ChildProps(tChild)).id} ELSE {})
    \cup (IF isOpen /\ dChild.present
          THEN {AlertDialogDescriptionAttrs(ChildProps(dChild)).id} ELSE {})

\* document.getElementById(id) !== null
GetElementById(ids, id) == id # "" /\ id # Absent /\ id \in ids

(* ------------------------ AccessibilityDevWarnings --------------------- *)

\* Variant: process.env.NODE_ENV !== 'production'.
RendersDevWarnings_NotProduction(nodeEnv) == nodeEnv # "production"

\* process.env.NODE_ENV === 'development' && <AccessibilityDevWarnings ... />
RendersDevWarnings(nodeEnv) == nodeEnv = "development"

\* Variant: the effect sits in AlertDialogContent itself and so fires on its
\* initial mount only.
ChecksOnOpen_RootMountOnly(nodeEnv, opensBefore) ==
    RendersDevWarnings(nodeEnv) /\ opensBefore = 0

\* The sub-component is a child of DialogPrimitive.Content, so it mounts, and
\* its effect runs, on every open transition.
ChecksOnOpen(nodeEnv, opensBefore) == RendersDevWarnings(nodeEnv)

\* Variant: the title id is not looked up.
hasLabel_NoTitleLookup(p, ids) ==
    \/ Truthy(p.ariaLabel)
    \/ (Truthy(p.ariaLabelledBy) /\ GetElementById(ids, p.ariaLabelledBy))

\* const hasLabel = Boolean(ariaLabel || ... || ...)
hasLabel(p, ids) ==
    \/ Truthy(p.ariaLabel)
    \/ (Truthy(p.ariaLabelledBy) /\ GetElementById(ids, p.ariaLabelledBy))
    \/ (Truthy(titleId) /\ GetElementById(ids, titleId))

\* const hasDescription = Boolean(... || ...)
hasDescription(p, ids) ==
    \/ (Truthy(p.ariaDescribedBy) /\ GetElementById(ids, p.ariaDescribedBy))
    \/ (Truthy(descriptionId) /\ GetElementById(ids, descriptionId))

\* One run of the effect: what it warns about.
DevWarningsEffect(p, ids) ==
    [ran |-> TRUE,
     label |-> IF hasLabel(p, ids) THEN 0 ELSE 1,
     desc |-> IF hasDescription(p, ids) THEN 0 ELSE 1]

NoCheck == [ran |-> FALSE, label |-> 0, desc |-> 0]

\* The effect's dependency list: [titleId, ariaLabel, ariaDescribedBy,
\* descriptionId, ariaLabelledBy].
EffectDepsChanged(p, q) ==
    \/ p.ariaLabel # q.ariaLabel
    \/ p.ariaLabelledBy # q.ariaLabelledBy
    \/ p.ariaDescribedBy # q.ariaDescribedBy

(* ------------------------- the dialog primitive ------------------------ *)

\* The primitive's own focus target: the first focusable descendant of the
\* content, the content element itself when there is none.
DefaultFocusTarget(gen) ==
    IF actionFirst THEN ActionElement(gen)
    ELSE IF cancels > 0 THEN CancelElement(1, gen)
    ELSE ContentElement(gen)

\* After dispatching the pre-autofocus event the primitive focuses its default
\* target unless the event is default-prevented.
FocusAfterAutoFocus(event, active, gen) ==
    IF ~event.defaultPrevented THEN DefaultFocusTarget(gen)
    ELSE IF event.focused # Null THEN event.focused
    ELSE active

(* ------------------------------ behaviour ------------------------------ *)

OptionalStrings(s) == {Absent, "", s}

PropsSet ==
    [ariaLabel : OptionalStrings("Delete file"),
     ariaLabelledBy : OptionalStrings("other-title"),
     ariaDescribedBy : OptionalStrings("other-desc"),
     role : {Absent, "dialog"},
     onOpenAutoFocus : {Absent, "noop", "prevent"}]

ChildSet(customId) ==
    {[present |-> FALSE, id |-> Absent],
     [present |-> TRUE, id |-> Absent],
     [present |-> TRUE, id |-> customId]}

NodeEnvs == {"production", "development", "test", "staging"}

Init ==
    /\ NODE_ENV \in NodeEnvs
    /\ props \in PropsSet
    /\ titleChild \in ChildSet("my-title")
    /\ descChild \in ChildSet("my-desc")
    /\ cancels \in 0..MaxCancel
    /\ actionFirst \in BOOLEAN
    /\ pageIds \in {{}, {"other-title", "other-desc"}}
    /\ open = FALSE
    /\ opens = 0
    /\ rerenders = 0
    /\ cancelRef = Null
    /\ activeElement = Trigger
    /\ content = NotRendered
    /\ labelWarnings = 0
    /\ descWarnings = 0
    /\ lastCheck = NoCheck
    /\ lastEvent = NewEvent

\* The primitive opens: the content mounts (refs attach, attributes render),
\* the effects of the mounted children run, the pre-autofocus hook fires.
Open ==
    /\ ~open
    /\ opens < MaxOpens
    /\ LET gen == opens + 1
           ref == CancelRefAfterMount(cancelRef, cancels, gen)
           ids == DocumentIds(TRUE, titleChild, descChild, pageIds)
           check == IF ChecksOnOpen(NODE_ENV, opens)
                    THEN DevWarningsEffect(props, ids) ELSE NoCheck
           event == ContentOnOpenAutoFocus(props, NewEvent, ref)
       IN  /\ open' = TRUE
           /\ opens' = gen
           /\ cancelRef' = ref
           /\ content' = AlertDialogContentAttrs(props)
           /\ lastCheck' = check
           /\ labelWarnings' = labelWarnings + check.label
           /\ descWarnings' = descWarnings + check.desc
           /\ lastEvent' = event
           /\ activeElement' = FocusAfterAutoFocus(event, activeElement, gen)
    /\ UNCHANGED <<config, props, rerenders>>

\* The primitive closes: the content unmounts, focus returns to the trigger.
Close ==
    /\ open
    /\ open' = FALSE
    /\ cancelRef' = CancelRefAfterUnmount(cancelRef)
    /\ content' = NotRendered
    /\ lastCheck' = NoCheck
    /\ activeElement' = Trigger
    /\ UNCHANGED <<config, props, opens, rerenders, labelWarnings, descWarnings, lastEvent>>

\* The caller re-renders the open Content with one of its aria-* props changed:
\* the attributes re-render and, a dependency having changed, the effect re-runs.
Rerender ==
    /\ open
    /\ rerenders < MaxRerenders
    /\ \E q \in PropsSet :
        /\ Cardinality({k \in DOMAIN q : q[k] # props[k]}) = 1
        /\ EffectDepsChanged(props, q)
        /\ props' = q
        /\ rerenders' = rerenders + 1
        /\ content' = AlertDialogContentAttrs(q)
        /\ LET ids == DocumentIds(TRUE, titleChild, descChild, pageIds)
               check == IF RendersDevWarnings(NODE_ENV)
                        THEN DevWarningsEffect(q, ids) ELSE NoCheck
           IN  /\ lastCheck' = check
               /\ labelWarnings' = labelWarnings + check.label
               /\ descWarnings' = descWarnings + check.desc
    /\ UNCHANGED <<config, open, opens, cancelRef, activeElement, lastEvent>>

Next == Open \/ Close \/ Rerender

Spec == Init /\ [][Next]_vars

(* ------------------------------ properties ----------------------------- *)

\* The document while the content is mounted.
OpenIds == DocumentIds(TRUE, titleChild, descChild, pageIds)

\* C1: with exactly one Cancel and no caller handler that prevents default, an
\* open transition leaves the event default-prevented and focus on the Cancel
\* element mounted by that very open transition.
FocusLandsOnCancel ==
    (open /\ cancels = 1 /\ props.onOpenAutoFocus # "prevent")
        => /\ lastEvent.defaultPrevented
           /\ lastEvent.focused = CancelElement(1, opens)
           /\ cancelRef = CancelElement(1, opens)
           /\ activeElement = CancelElement(1, opens)

FocusLandsOnCancel_Witness ==
    /\ open /\ opens = 2 /\ cancels = 1 /\ actionFirst
    /\ props.onOpenAutoFocus = "noop"
    /\ activeElement = CancelElement(1, 2)

\* C2: the rendered content element never carries both aria-label and
\* aria-labelledby; a non-empty aria-label is rendered and drops aria-labelledby
\* even when the caller passed one.
LabelSourcesExclusive ==
    open => /\ ~(content.ariaLabel # Absent /\ content.ariaLabelledBy # Absent)
            /\ (props.ariaLabel \notin {Absent, ""}
                  => /\ content.ariaLabel = props.ariaLabel
                     /\ content.ariaLabelledBy = Absent)

LabelSourcesExclusive_Witness ==
    /\ open
    /\ props.ariaLabel = "Delete file"
    /\ props.ariaLabelledBy = "other-title"
    /\ props.role = "dialog"
    /\ content.ariaLabel = "Delete file"
    /\ content.ariaLabelledBy = Absent

\* C3 as stated: the caller's handler runs first, the component's default after
\* it unless the caller prevented default, and when the caller prevented default
\* focus goes to the primitive's own default focus target.
CallerPreventFallsToDefault ==
    open => /\ (props.onOpenAutoFocus = "noop" => lastEvent.calls = <<"user", "default">>)
            /\ ((props.onOpenAutoFocus = "prevent" /\ cancels = 1)
                  => /\ lastEvent.calls = <<"user">>
                     /\ lastEvent.focused = Null
                     /\ activeElement = DefaultFocusTarget(opens))

\* C3 as amended: the caller's handler runs first, the component's default after
\* it unless the caller prevented default; when the caller prevented default the
\* component does not focus Cancel and, the event being default-prevented, the
\* primitive does not focus its default target either: focus stays where it was.
CallerHandlerComposes ==
    open => /\ (props.onOpenAutoFocus = Absent => lastEvent.calls = <<"default">>)
            /\ (props.onOpenAutoFocus = "noop" => lastEvent.calls = <<"user", "default">>)
            /\ (props.onOpenAutoFocus = "prevent"
                  => /\ lastEvent.calls = <<"user">>
                     /\ lastEvent.defaultPrevented
                     /\ lastEvent.focused = Null
                     /\ activeElement = Trigger)

CallerHandlerComposes_Witness ==
    /\ open /\ cancels = 1
    /\ props.onOpenAutoFocus = "prevent"
    /\ lastEvent.calls = <<"user">>
    /\ cancelRef = CancelElement(1, opens)
    /\ activeElement = Trigger

\* C4: whatever props the caller passes, a role prop included, the rendered
\* content element carries role="alertdialog".
RoleIsAlwaysAlertDialog ==
    open => content.role = "alertdialog"

\* C5: with no aria-* override and a Title and a Description among the children,
\* whatever props these carry, aria-labelledby is the id of the rendered Title
\* element and aria-describedby the id of the rendered Description element.
DefaultLinkageMatchesChildIds ==
    (/\ open
     /\ props.ariaLabel = Absent
     /\ props.ariaLabelledBy = Absent
     /\ props.ariaDescribedBy = Absent
     /\ titleChild.present
     /\ descChild.present)
        => /\ content.ariaLabelledBy = AlertDialogTitleAttrs(ChildProps(titleChild)).id
           /\ content.ariaDescribedBy =
                  AlertDialogDescriptionAttrs(ChildProps(descChild)).id

\* C6 as stated: the rendered attributes follow the rule whose fallbacks (??)
\* apply only to an absent prop: labelledby = label ? undefined : (labelledBy ??
\* titleId), label = label ?? undefined, describedby = describedBy ?? descriptionId.
AttrsFollowNullishRule ==
    open => /\ content.ariaLabelledBy =
                  (IF props.ariaLabel \notin {Absent, ""} THEN Absent
                   ELSE IF props.ariaLabelledBy # Absent THEN props.ariaLabelledBy
                   ELSE "radix-id-2")
            /\ content.ariaLabel = props.ariaLabel
            /\ content.ariaDescribedBy =
                  (IF props.ariaDescribedBy # Absent THEN props.ariaDescribedBy
                   ELSE "radix-id-1")

\* C6 as amended: the same rule with fallbacks that apply to an absent or empty
\* prop (||): an empty aria-labelledby or aria-describedby falls back to the
\* generated id, an empty aria-label renders no aria-label; a non-empty
\* aria-labelledby is used instead of the Title's generated id.
AttrsFollowFalsyRule ==
    open => /\ content.ariaLabelledBy =
                  (IF props.ariaLabel \notin {Absent, ""} THEN Absent
                   ELSE IF props.ariaLabelledBy \notin {Absent, ""} THEN props.ariaLabelledBy
                   ELSE "radix-id-2")
            /\ content.ariaLabel =
                  (IF props.ariaLabel \notin {Absent, ""} THEN props.ariaLabel ELSE Absent)
            /\ content.ariaDescribedBy =
                  (IF props.ariaDescribedBy \notin {Absent, ""} THEN props.ariaDescribedBy
                   ELSE "radix-id-1")

AttrsFollowFalsyRule_Witness ==
    /\ open
    /\ props.ariaLabel = ""
    /\ props.ariaLabelledBy = ""
    /\ props.ariaDescribedBy = ""
    /\ content.ariaLabel = Absent
    /\ content.ariaLabelledBy = titleId
    /\ content.ariaDescribedBy = descriptionId

\* C7: a run of the accessibility check emits exactly one label warning iff
\* there is no (non-empty) aria-label, the aria-labelledby prop names no rendered
\* element and the title id names no rendered element, none otherwise; exactly
\* one description warning iff neither the aria-describedby prop nor the
\* description id names a rendered element, none otherwise.
WarningsMatchResolution ==
    (open /\ lastCheck.ran)
        => /\ lastCheck.label =
                 (IF /\ props.ariaLabel \in {Absent, ""}
                     /\ props.ariaLabelledBy \notin OpenIds
                     /\ "radix-id-2" \notin OpenIds
                  THEN 1 ELSE 0)
           /\ lastCheck.desc =
                 (IF /\ props.ariaDescribedBy \notin OpenIds
                     /\ "radix-id-1" \notin OpenIds
                  THEN 1 ELSE 0)

WarningsMatchResolution_Witness ==
    /\ open /\ lastCheck.ran
    /\ props.ariaLabel = Absent
    /\ props.ariaLabelledBy = "other-title"
    /\ pageIds = {}
    /\ titleChild.present /\ titleChild.id = Absent
    /\ ~descChild.present
    /\ lastCheck.label = 0
    /\ lastCheck.desc = 1

\* C8: in a development build, over opens and closes of one instance (no prop
\* change), as long as the label (description) is unresolvable the number of
\* label (description) warnings equals the number of open transitions.
WarningsRepeatOnEveryOpen ==
    (NODE_ENV = "development" /\ rerenders = 0)
        => /\ (~hasLabel(props, OpenIds) => labelWarnings = opens)
           /\ (~hasDescription(props, OpenIds) => descWarnings = opens)

WarningsRepeatOnEveryOpen_Witness ==
    /\ NODE_ENV = "development" /\ rerenders = 0
    /\ open /\ opens = 2
    /\ ~hasLabel(props, OpenIds)
    /\ hasDescription(props, OpenIds)
    /\ labelWarnings = 2
    /\ descWarnings = 0

\* C9 as stated: the dev-warning sub-component is rendered in an open Content
\* iff the build is not a production build.
WarnsUnlessProduction ==
    open => (lastCheck.ran <=> NODE_ENV # "production")

\* C9 as amended: the dev-warning sub-component is rendered in an open Content
\* iff NODE_ENV is exactly "development"; a production, test or other build
\* never warns.
WarnsOnlyInDevelopment ==
    /\ open => (lastCheck.ran <=> NODE_ENV = "development")
    /\ NODE_ENV # "development" => (labelWarnings = 0 /\ descWarnings = 0)

WarnsOnlyInDevelopment_Witness ==
    /\ open /\ opens = 2
    /\ NODE_ENV = "test"
    /\ ~hasLabel(props, OpenIds)
    /\ ~lastCheck.ran
    /\ labelWarnings = 0

\* C10 as stated: with no Cancel the slot is empty at every open, the focus
\* redirection does nothing, and focus falls through to the primitive's
\* ordinary default-focus target.
NoCancelFallsThrough ==
    (open /\ cancels = 0)
        => /\ cancelRef = Null
           /\ lastEvent.focused = Null
           /\ activeElement = DefaultFocusTarget(opens)

\* C10 as amended: with no Cancel the slot is empty at every open and the
\* component focuses nothing and raises nothing, but the event is still
\* default-prevented, so the primitive does not focus its default target: the
\* open transition leaves focus where it was.
NoCancelFocusesNothing ==
    (open /\ cancels = 0)
        => /\ cancelRef = Null
           /\ lastEvent.focused = Null
           /\ lastEvent.defaultPrevented
           /\ activeElement = Trigger

NoCancelFocusesNothing_Witness ==
    /\ open /\ opens = 2 /\ cancels = 0 /\ actionFirst
    /\ props.onOpenAutoFocus = Absent
    /\ lastEvent.calls = <<"default">>
    /\ activeElement = Trigger

====
